---- MODULE Spec2Model ----
(***************************************************************************)
(* Model of the SiFive CLINT register access layer (src/src/lib.rs).       *)
(*                                                                         *)
(* 64-bit quantities (register contents, addresses, register-file values)  *)
(* are little-endian sequences of 8 bytes, so that 64-bit width, wrap      *)
(* around and byte-granular memory effects are kept exactly.  Memory is a  *)
(* sparse byte map; a byte never written reads as the background byte bg   *)
(* (the unknown initial contents of the device and the stack).             *)
(***************************************************************************)
EXTENDS Integers, Sequences, FiniteSets, TLC

VARIABLES base, bg, caller, mem, last, prev, nops, panicked

vars == <<base, bg, caller, mem, last, prev, nops, panicked>>

(***************************************************************************)
(* Bounds of the model.                                                    *)
(***************************************************************************)
MaxOps == 2

(***************************************************************************)
(* 64-bit arithmetic on little-endian byte sequences.                      *)
(***************************************************************************)
\* a natural number below 2^31 as a 64-bit value
FromNat(n) ==
    <<n % 256, (n \div 256) % 256, (n \div 65536) % 256, (n \div 16777216) % 256,
      0, 0, 0, 0>>

Not64(a) ==
    <<255 - a[1], 255 - a[2], 255 - a[3], 255 - a[4],
      255 - a[5], 255 - a[6], 255 - a[7], 255 - a[8]>>

\* sign-extended immediate
Imm(n) == IF n >= 0 THEN FromNat(n) ELSE Not64(FromNat(-n - 1))

\* addition modulo 2^64: byte sums with the carry rippling upwards
Add64(a, b) ==
    LET s1 == a[1] + b[1]
        s2 == a[2] + b[2] + (s1 \div 256)
        s3 == a[3] + b[3] + (s2 \div 256)
        s4 == a[4] + b[4] + (s3 \div 256)
        s5 == a[5] + b[5] + (s4 \div 256)
        s6 == a[6] + b[6] + (s5 \div 256)
        s7 == a[7] + b[7] + (s6 \div 256)
        s8 == a[8] + b[8] + (s7 \div 256)
    IN  <<s1 % 256, s2 % 256, s3 % 256, s4 % 256, s5 % 256, s6 % 256, s7 % 256, s8 % 256>>

\* shift left by k bits, 0 <= k < 8
Sll64(a, k) ==
    LET p == 2 ^ k
        q == 2 ^ (8 - k)
        F(i) == ((a[i] * p) % 256) + (IF i > 1 THEN a[i - 1] \div q ELSE 0)
    IN  <<F(1), F(2), F(3), F(4), F(5), F(6), F(7), F(8)>>

\* a + k for 0 <= k < 256: Add64(a, FromNat(k)), short-cut when no carry leaves
\* the low byte
Inc64(a, k) == IF a[1] + k < 256 THEN [a EXCEPT ![1] = a[1] + k] ELSE Add64(a, FromNat(k))

Zero64 == FromNat(0)
One64 == FromNat(1)

\* sign extension of a 4-byte little-endian word to 64 bits
SignExt32(w) ==
    LET s == IF w[4] >= 128 THEN 255 ELSE 0
    IN  <<w[1], w[2], w[3], w[4], s, s, s, s>>

(***************************************************************************)
(* Memory: sparse byte map keyed by 64-bit address.                        *)
(***************************************************************************)
ByteAt(m, fill, a) == IF a \in DOMAIN m THEN m[a] ELSE fill

Range(addr, w) == {Inc64(addr, k) : k \in 0..(w - 1)}

RECURSIVE LoadFrom(_, _, _, _, _)
LoadFrom(m, fill, addr, i, w) ==
    IF i > w THEN <<>>
    ELSE <<ByteAt(m, fill, Inc64(addr, i - 1))>> \o LoadFrom(m, fill, addr, i + 1, w)

\* the w bytes at addr .. addr + w - 1, lowest address first
LoadBytes(m, fill, addr, w) == LoadFrom(m, fill, addr, 1, w)

RECURSIVE StoreFrom(_, _, _, _, _)
StoreFrom(m, addr, bytes, i, w) ==
    IF i > w THEN m
    ELSE StoreFrom((Inc64(addr, i - 1) :> bytes[i]) @@ m, addr, bytes, i + 1, w)

\* the low w bytes of bytes, stored at addr .. addr + w - 1
StoreBytes(m, addr, bytes, w) == StoreFrom(m, addr, bytes, 1, w)

Access(kind, addr, w) == [kind |-> kind, addr |-> addr, width |-> w]

(***************************************************************************)
(* Types and #[repr(C)] layout.                                            *)
(***************************************************************************)
NumHarts == 4095

Ty(size, align) == [size |-> size, align |-> align]

U32 == Ty(4, 4)
U64 == Ty(8, 8)

\* #[repr(transparent)] wrappers of UnsafeCell<u64> / UnsafeCell<u32>
MTIME == U64
MTIMECMP == U64
MSIP == U32
SETSSIP == U32

ArrayOf(t, n) == Ty(t.size * n, t.align)

AlignUp(n, a) == ((n + a - 1) \div a) * a

RECURSIVE FieldOffset(_, _)
FieldOffset(fields, i) ==
    IF i = 1 THEN 0
    ELSE AlignUp(FieldOffset(fields, i - 1) + fields[i - 1].size, fields[i].align)

RECURSIVE MaxAlign(_, _)
MaxAlign(fields, i) ==
    IF i = 0 THEN 1
    ELSE LET r == MaxAlign(fields, i - 1)
         IN  IF fields[i].align > r THEN fields[i].align ELSE r

StructOf(fields) ==
    LET n == Len(fields)
        al == MaxAlign(fields, n)
    IN  Ty(AlignUp(FieldOffset(fields, n) + fields[n].size, al), al)

SizeOf(t) == t.size

\* mutant: the reserved trailing slot of MSWI left out
MSWIFields_NoReserved == <<ArrayOf(MSIP, NumHarts)>>

MSWIFields == <<ArrayOf(MSIP, NumHarts), U32>>
MSWI == StructOf(MSWIFields)

SSWIFields == <<ArrayOf(SETSSIP, NumHarts), U32>>
SSWI == StructOf(SSWIFields)

SifiveClintFields == <<MSWI, ArrayOf(MTIMECMP, NumHarts), MTIME>>
SifiveClint == StructOf(SifiveClintFields)

\* byte offsets of the fields of SifiveClint, and of msip inside MSWI
OffsetOfMswi == FieldOffset(SifiveClintFields, 1)
OffsetOfMtimecmp == FieldOffset(SifiveClintFields, 2)
OffsetOfMtime == FieldOffset(SifiveClintFields, 3)
OffsetOfMsip == OffsetOfMswi + FieldOffset(MSWIFields, 1)

\* associated constants of impl SifiveClint
MTIMER_OFFSET == SizeOf(MSWI) + SizeOf(U32)
MTIME_OFFSET == MTIMER_OFFSET + SizeOf(ArrayOf(MTIMECMP, NumHarts))

(***************************************************************************)
(* Inputs.                                                                 *)
(***************************************************************************)
Harts == {0, 1, NumHarts - 1, NumHarts}

AllOnes == Not64(Zero64)
AltBits == <<170, 170, 170, 170, 170, 170, 170, 170>>

Vals == {Zero64, AllOnes, AltBits}

\* where the device is mapped (0x0200_0000)
Bases == {<<0, 0, 0, 2, 0, 0, 0, 0>>}

\* the environment of the calls: fill is what memory holds before it is
\* first written; the rest is the caller's state at entry to a raw accessor
\* that is not an argument: stack pointer, return address, a callee-saved
\* and a temporary register, and the contents of argument registers the
\* callee takes no argument in
Envs ==
    { [fill |-> 0,
       sp |-> <<0, 16, 0, 128, 0, 0, 0, 0>>, ra |-> <<52, 18, 0, 128, 0, 0, 0, 0>>,
       s0 |-> <<1, 2, 3, 4, 5, 6, 7, 8>>, t0 |-> <<9, 9, 9, 9, 9, 9, 9, 9>>,
       ax |-> <<17, 34, 51, 68, 85, 102, 119, 136>>],
      [fill |-> 255,
       sp |-> <<240, 255, 255, 135, 0, 0, 0, 0>>, ra |-> <<0, 0, 32, 128, 0, 0, 0, 0>>,
       s0 |-> Zero64, t0 |-> AllOnes,
       ax |-> <<0, 0, 0, 0, 0, 0, 0, 1>>] }

(***************************************************************************)
(* Safe accessor layer (impl SifiveClint, lines 63-101).                   *)
(***************************************************************************)
\* mutant: bounds check off by one
IndexInBounds_OffByOne(idx, len) == idx <= len

\* the bounds check of the index expressions array[hart_idx]
IndexInBounds(idx, len) == idx < len

ElemOffset(arrayOff, t, idx) == arrayOff + t.size * idx

Ok(result, m, log) == [outcome |-> "ok", result |-> result, mem |-> m, log |-> log]
Panic(m) == [outcome |-> "panic", result |-> Zero64, mem |-> m, log |-> <<>>]

read_volatile(m, fill, addr, t) ==
    Ok(LoadBytes(m, fill, addr, t.size), m, <<Access("load", addr, t.size)>>)

write_volatile(m, addr, bytes, t) ==
    Ok(Zero64, StoreBytes(m, addr, bytes, t.size), <<Access("store", addr, t.size)>>)

\* a bool result in the 8-byte form results are recorded in
BoolOf(b) == IF b THEN One64 ELSE Zero64

MtimeAddr(self) == Add64(self, FromNat(OffsetOfMtime))
MtimecmpAddr(self, idx) == Add64(self, FromNat(ElemOffset(OffsetOfMtimecmp, MTIMECMP, idx)))
MsipAddr(self, idx) == Add64(self, FromNat(ElemOffset(OffsetOfMsip, MSIP, idx)))

safe_read_mtime(self, m, fill) == read_volatile(m, fill, MtimeAddr(self), MTIME)

safe_write_mtime(self, m, val) == write_volatile(m, MtimeAddr(self), val, MTIME)

safe_read_mtimecmp(self, m, fill, idx) ==
    IF IndexInBounds(idx, NumHarts)
    THEN read_volatile(m, fill, MtimecmpAddr(self, idx), MTIMECMP)
    ELSE Panic(m)

safe_write_mtimecmp(self, m, idx, val) ==
    IF IndexInBounds(idx, NumHarts)
    THEN write_volatile(m, MtimecmpAddr(self, idx), val, MTIMECMP)
    ELSE Panic(m)

safe_read_msip(self, m, fill, idx) ==
    IF IndexInBounds(idx, NumHarts)
    THEN LET r == read_volatile(m, fill, MsipAddr(self, idx), MSIP)
         IN  [r EXCEPT !.result = BoolOf(r.result # <<0, 0, 0, 0>>)]
    ELSE Panic(m)

safe_set_msip(self, m, idx) ==
    IF IndexInBounds(idx, NumHarts)
    THEN write_volatile(m, MsipAddr(self, idx), <<1, 0, 0, 0>>, MSIP)
    ELSE Panic(m)

safe_clear_msip(self, m, idx) ==
    IF IndexInBounds(idx, NumHarts)
    THEN write_volatile(m, MsipAddr(self, idx), <<0, 0, 0, 0>>, MSIP)
    ELSE Panic(m)

(***************************************************************************)
(* Raw layer: the RV64 instructions of the #[naked] functions, executed on *)
(* a machine state [r, mem, fill, log, returned, pc].                      *)
(***************************************************************************)
RegNames == {"a0", "a1", "a2", "sp", "ra", "s0", "t0"}

Ins(op, rd, rs1, rs2, imm) == [op |-> op, rd |-> rd, rs1 |-> rs1, rs2 |-> rs2, imm |-> imm]

Reg(m, name) == IF name = "zero" THEN Zero64 ELSE m.r[name]

SetReg(m, name, v) == IF name = "zero" THEN m ELSE [m EXCEPT !.r[name] = v]

Exec(i, m) ==
    CASE i.op = "addi" -> SetReg(m, i.rd, Add64(Reg(m, i.rs1), Imm(i.imm)))
      [] i.op = "li"   -> SetReg(m, i.rd, Imm(i.imm))
      [] i.op = "add"  -> SetReg(m, i.rd, Add64(Reg(m, i.rs1), Reg(m, i.rs2)))
      [] i.op = "slli" -> SetReg(m, i.rd, Sll64(Reg(m, i.rs1), i.imm))
      [] i.op = "ld"   ->
            LET a == Reg(m, i.rs1)
            IN  [SetReg(m, i.rd, LoadBytes(m.mem, m.fill, a, 8))
                    EXCEPT !.log = Append(m.log, Access("load", a, 8))]
      [] i.op = "lw"   ->
            LET a == Reg(m, i.rs1)
            IN  [SetReg(m, i.rd, SignExt32(LoadBytes(m.mem, m.fill, a, 4)))
                    EXCEPT !.log = Append(m.log, Access("load", a, 4))]
      [] i.op = "sd"   ->
            LET a == Reg(m, i.rs1)
            IN  [m EXCEPT !.mem = StoreBytes(m.mem, a, Reg(m, i.rs2), 8),
                          !.log = Append(m.log, Access("store", a, 8))]
      [] i.op = "sw"   ->
            LET a == Reg(m, i.rs1)
            IN  [m EXCEPT !.mem = StoreBytes(m.mem, a, Reg(m, i.rs2), 4),
                          !.log = Append(m.log, Access("store", a, 4))]
      [] i.op = "ret"  -> [m EXCEPT !.returned = TRUE, !.pc = Reg(m, "ra")]

RECURSIVE RunFrom(_, _, _)
RunFrom(prog, i, m) ==
    IF m.returned \/ i > Len(prog) THEN m ELSE RunFrom(prog, i + 1, Exec(prog[i], m))

Run(prog, m) == RunFrom(prog, 1, m)

read_mtime_naked_asm ==
    << Ins("addi", "sp", "sp", "zero", -8),
       Ins("sd", "zero", "sp", "a1", 0),
       Ins("li", "a1", "zero", "zero", MTIME_OFFSET),
       Ins("add", "a0", "a0", "a1", 0),
       Ins("ld", "a1", "sp", "zero", 0),
       Ins("addi", "sp", "sp", "zero", 8),
       Ins("ld", "a0", "a0", "zero", 0),
       Ins("ret", "zero", "zero", "zero", 0) >>

\* mutant: a1 is not reloaded from the scratch slot before the store
write_mtime_naked_asm_NoReload ==
    << Ins("addi", "sp", "sp", "zero", -8),
       Ins("sd", "zero", "sp", "a1", 0),
       Ins("li", "a1", "zero", "zero", MTIME_OFFSET),
       Ins("add", "a0", "a0", "a1", 0),
       Ins("addi", "sp", "sp", "zero", 8),
       Ins("sd", "zero", "a0", "a1", 0),
       Ins("ret", "zero", "zero", "zero", 0) >>

write_mtime_naked_asm ==
    << Ins("addi", "sp", "sp", "zero", -8),
       Ins("sd", "zero", "sp", "a1", 0),
       Ins("li", "a1", "zero", "zero", MTIME_OFFSET),
       Ins("add", "a0", "a0", "a1", 0),
       Ins("ld", "a1", "sp", "zero", 0),
       Ins("addi", "sp", "sp", "zero", 8),
       Ins("sd", "zero", "a0", "a1", 0),
       Ins("ret", "zero", "zero", "zero", 0) >>

read_mtimecmp_naked_asm ==
    << Ins("slli", "a1", "a1", "zero", 3),
       Ins("add", "a0", "a0", "a1", 0),
       Ins("li", "a1", "zero", "zero", MTIMER_OFFSET),
       Ins("add", "a0", "a0", "a1", 0),
       Ins("ld", "a0", "a0", "zero", 0),
       Ins("ret", "zero", "zero", "zero", 0) >>

write_mtimecmp_naked_asm ==
    << Ins("slli", "a1", "a1", "zero", 3),
       Ins("add", "a0", "a0", "a1", 0),
       Ins("li", "a1", "zero", "zero", MTIMER_OFFSET),
       Ins("add", "a0", "a0", "a1", 0),
       Ins("sd", "zero", "a0", "a2", 0),
       Ins("ret", "zero", "zero", "zero", 0) >>

\* mutant: the index is scaled by 8 as for the 8-byte registers
read_msip_naked_asm_Shift3 ==
    << Ins("slli", "a1", "a1", "zero", 3),
       Ins("add", "a0", "a0", "a1", 0),
       Ins("lw", "a0", "a0", "zero", 0),
       Ins("ret", "zero", "zero", "zero", 0) >>

read_msip_naked_asm ==
    << Ins("slli", "a1", "a1", "zero", 2),
       Ins("add", "a0", "a0", "a1", 0),
       Ins("lw", "a0", "a0", "zero", 0),
       Ins("ret", "zero", "zero", "zero", 0) >>

\* mutant: a doubleword store in place of the word store
set_msip_naked_asm_Sd ==
    << Ins("slli", "a1", "a1", "zero", 2),
       Ins("add", "a0", "a0", "a1", 0),
       Ins("addi", "a1", "zero", "zero", 1),
       Ins("sd", "zero", "a0", "a1", 0),
       Ins("ret", "zero", "zero", "zero", 0) >>

set_msip_naked_asm ==
    << Ins("slli", "a1", "a1", "zero", 2),
       Ins("add", "a0", "a0", "a1", 0),
       Ins("addi", "a1", "zero", "zero", 1),
       Ins("sw", "zero", "a0", "a1", 0),
       Ins("ret", "zero", "zero", "zero", 0) >>

\* mutant: the scaled index in a1 is stored in place of zero
clear_msip_naked_asm_StoreA1 ==
    << Ins("slli", "a1", "a1", "zero", 2),
       Ins("add", "a0", "a0", "a1", 0),
       Ins("sw", "zero", "a0", "a1", 0),
       Ins("ret", "zero", "zero", "zero", 0) >>

clear_msip_naked_asm ==
    << Ins("slli", "a1", "a1", "zero", 2),
       Ins("add", "a0", "a0", "a1", 0),
       Ins("sw", "zero", "a0", "zero", 0),
       Ins("ret", "zero", "zero", "zero", 0) >>

\* extern "C" call: arguments in a0, a1, a2; everything else is the caller's
Entry(a0, a1, a2, e) ==
    [a0 |-> a0, a1 |-> a1, a2 |-> a2, sp |-> e.sp, ra |-> e.ra, s0 |-> e.s0, t0 |-> e.t0]

Call(prog, regs, m, fill) ==
    Run(prog, [r |-> regs, mem |-> m, fill |-> fill, log |-> <<>>,
               returned |-> FALSE, pc |-> Zero64])

(***************************************************************************)
(* State machine: one action per accessor.  last records the most recent   *)
(* call (with the memory before it, its accesses, and for the raw layer    *)
(* the register file at entry and at ret); prev is the call before it.     *)
(***************************************************************************)
NoHart == -1

NoRegs == Entry(Zero64, Zero64, Zero64, [sp |-> Zero64, ra |-> Zero64, s0 |-> Zero64, t0 |-> Zero64])

NoCall ==
    [op |-> "init", layer |-> "none", hart |-> NoHart, val |-> Zero64,
     outcome |-> "ok", result |-> Zero64, log |-> <<>>, pre |-> <<>>,
     entry |-> NoRegs, exit |-> NoRegs, pc |-> Zero64]

\* what is kept of the call before the last one
Summary(call) ==
    [op |-> call.op, layer |-> call.layer, hart |-> call.hart, val |-> call.val,
     outcome |-> call.outcome]

Init ==
    /\ base \in Bases
    /\ caller \in Envs
    /\ bg = caller.fill
    /\ mem = <<>>
    /\ last = NoCall
    /\ prev = Summary(NoCall)
    /\ nops = 0
    /\ panicked = FALSE

CanCall == nops < MaxOps /\ ~panicked

Record(call) ==
    /\ last' = call
    /\ prev' = Summary(last)
    /\ nops' = nops + 1
    /\ panicked' = (call.outcome = "panic")
    /\ UNCHANGED <<base, bg, caller>>

SafeCall(op, h, v, r) ==
    /\ mem' = r.mem
    /\ Record([op |-> op, layer |-> "safe", hart |-> h, val |-> v,
               outcome |-> r.outcome, result |-> r.result, log |-> r.log, pre |-> mem,
               entry |-> NoRegs, exit |-> NoRegs, pc |-> Zero64])

NakedCall(op, h, v, regs, m) ==
    /\ mem' = m.mem
    /\ Record([op |-> op, layer |-> "naked", hart |-> h, val |-> v,
               outcome |-> "ok", result |-> m.r["a0"], log |-> m.log, pre |-> mem,
               entry |-> regs, exit |-> m.r, pc |-> m.pc])

read_mtime ==
    /\ CanCall
    /\ SafeCall("read_mtime", NoHart, Zero64, safe_read_mtime(base, mem, bg))

write_mtime(val) ==
    /\ CanCall
    /\ SafeCall("write_mtime", NoHart, val, safe_write_mtime(base, mem, val))

read_mtimecmp(hart_idx) ==
    /\ CanCall
    /\ SafeCall("read_mtimecmp", hart_idx, Zero64, safe_read_mtimecmp(base, mem, bg, hart_idx))

write_mtimecmp(hart_idx, val) ==
    /\ CanCall
    /\ SafeCall("write_mtimecmp", hart_idx, val, safe_write_mtimecmp(base, mem, hart_idx, val))

read_msip(hart_idx) ==
    /\ CanCall
    /\ SafeCall("read_msip", hart_idx, Zero64, safe_read_msip(base, mem, bg, hart_idx))

set_msip(hart_idx) ==
    /\ CanCall
    /\ SafeCall("set_msip", hart_idx, Zero64, safe_set_msip(base, mem, hart_idx))

clear_msip(hart_idx) ==
    /\ CanCall
    /\ SafeCall("clear_msip", hart_idx, Zero64, safe_clear_msip(base, mem, hart_idx))

read_mtime_naked ==
    /\ CanCall
    /\ LET regs == Entry(base, caller.ax, caller.ax, caller)
       IN  NakedCall("read_mtime", NoHart, Zero64, regs,
                     Call(read_mtime_naked_asm, regs, mem, bg))

write_mtime_naked(val) ==
    /\ CanCall
    /\ LET regs == Entry(base, val, caller.ax, caller)
       IN  NakedCall("write_mtime", NoHart, val, regs,
                     Call(write_mtime_naked_asm, regs, mem, bg))

read_mtimecmp_naked(hart_idx) ==
    /\ CanCall
    /\ LET regs == Entry(base, FromNat(hart_idx), caller.ax, caller)
       IN  NakedCall("read_mtimecmp", hart_idx, Zero64, regs,
                     Call(read_mtimecmp_naked_asm, regs, mem, bg))

write_mtimecmp_naked(hart_idx, val) ==
    /\ CanCall
    /\ LET regs == Entry(base, FromNat(hart_idx), val, caller)
       IN  NakedCall("write_mtimecmp", hart_idx, val, regs,
                     Call(write_mtimecmp_naked_asm, regs, mem, bg))

read_msip_naked(hart_idx) ==
    /\ CanCall
    /\ LET regs == Entry(base, FromNat(hart_idx), caller.ax, caller)
       IN  NakedCall("read_msip", hart_idx, Zero64, regs,
                     Call(read_msip_naked_asm, regs, mem, bg))

set_msip_naked(hart_idx) ==
    /\ CanCall
    /\ LET regs == Entry(base, FromNat(hart_idx), caller.ax, caller)
       IN  NakedCall("set_msip", hart_idx, Zero64, regs,
                     Call(set_msip_naked_asm, regs, mem, bg))

clear_msip_naked(hart_idx) ==
    /\ CanCall
    /\ LET regs == Entry(base, FromNat(hart_idx), caller.ax, caller)
       IN  NakedCall("clear_msip", hart_idx, Zero64, regs,
                     Call(clear_msip_naked_asm, regs, mem, bg))

Next ==
    \/ read_mtime
    \/ \E v \in Vals : write_mtime(v)
    \/ \E h \in Harts : read_mtimecmp(h)
    \/ \E h \in Harts, v \in Vals : write_mtimecmp(h, v)
    \/ \E h \in Harts : read_msip(h)
    \/ \E h \in Harts : set_msip(h)
    \/ \E h \in Harts : clear_msip(h)
    \/ read_mtime_naked
    \/ \E v \in Vals : write_mtime_naked(v)
    \/ \E h \in Harts : read_mtimecmp_naked(h)
    \/ \E h \in Harts, v \in Vals : write_mtimecmp_naked(h, v)
    \/ \E h \in Harts : read_msip_naked(h)
    \/ \E h \in Harts : set_msip_naked(h)
    \/ \E h \in Harts : clear_msip_naked(h)

Spec == Init /\ [][Next]_vars

(***************************************************************************)
(* Vocabulary of the properties.                                           *)
(***************************************************************************)
Sub64(a, b) == Add64(a, Add64(Not64(b), One64))

\* a - b when that is below 2^30, else -1 (a lies below b, or far above it)
Distance(a, b) ==
    LET d == Sub64(a, b)
    IN  IF d[5] = 0 /\ d[6] = 0 /\ d[7] = 0 /\ d[8] = 0 /\ d[4] < 64
        THEN d[1] + 256 * d[2] + 65536 * d[3] + 16777216 * d[4]
        ELSE -1

Bytes(off, w) == off..(off + w - 1)

\* offsets from the device base of the bytes an access touches; {-1} for
\* an access that starts below the base or 2^30 bytes or more above it
Touched(acc) ==
    LET off == Distance(acc.addr, base)
    IN  IF off >= 0 THEN Bytes(off, acc.width) ELSE {-1}

\* the scratch slot the raw mtime accessors spill a1 to: 8 bytes below sp
StackSlotAddr(call) == Add64(call.entry["sp"], Imm(-8))

\* [a, a + w) and [b, b + v) have a byte in common
Overlap(a, w, b, v) ==
    LET d == Distance(a, b)
        e == Distance(b, a)
    IN  (d >= 0 /\ d < v) \/ (e >= 0 /\ e < w)

IsDeviceAccess(call, acc) == ~Overlap(acc.addr, acc.width, StackSlotAddr(call), 8)

\* the accesses of a call other than those to its own scratch stack slot
DevLog(call) ==
    LET slot == StackSlotAddr(call)
        F(acc) == ~Overlap(acc.addr, acc.width, slot, 8)
    IN  SelectSeq(call.log, F)

PerHartOps == {"read_mtimecmp", "write_mtimecmp", "read_msip", "set_msip", "clear_msip"}
CompareOps == {"read_mtimecmp", "write_mtimecmp"}
PendingOps == {"read_msip", "set_msip", "clear_msip"}
TimeOps == {"read_mtime", "write_mtime"}
LoadOps == {"read_mtime", "read_mtimecmp", "read_msip"}

InRange(h) == 0 <= h /\ h < NumHarts

OtherLayer(l) == IF l = "safe" THEN "naked" ELSE "safe"

\* what the accessors of either layer return when called in the current state
ReadMsipSafe(m, h) == safe_read_msip(base, m, bg, h).result
ReadMtimecmpSafe(m, h) == safe_read_mtimecmp(base, m, bg, h).result
ReadMtimeSafe(m) == safe_read_mtime(base, m, bg).result
ReadMsipNaked(m, h) ==
    Call(read_msip_naked_asm, Entry(base, FromNat(h), Zero64, NoRegs), m, bg).r["a0"]

(***************************************************************************)
(* C1: for every hart h < 4095 the raw time-compare accessors load from /  *)
(* store to exactly base + 0x4000 + 8*h, the address of mtimecmp[h] that   *)
(* the safe accessors touch.                                               *)
(***************************************************************************)
C1_RawCompareAddress ==
    (last.layer = "naked" /\ last.op \in CompareOps /\ InRange(last.hart))
        => /\ Len(last.log) = 1
           /\ last.log[1].addr = Add64(base, FromNat(16384 + 8 * last.hart))
           /\ last.log[1].addr = MtimecmpAddr(base, last.hart)

(***************************************************************************)
(* C2: the raw time-counter accessors do their 8-byte access at exactly    *)
(* base + 0xbff8, the address of the mtime field the safe accessors use,   *)
(* so the access stays inside [base, base + 0xc000).                       *)
(***************************************************************************)
C2_RawTimeAddress ==
    (last.layer = "naked" /\ last.op \in TimeOps)
        => LET dev == DevLog(last)
           IN  /\ Len(dev) = 1
               /\ dev[1].width = 8
               /\ dev[1].addr = Add64(base, FromNat(49144))
               /\ dev[1].addr = MtimeAddr(base)
               /\ Touched(dev[1]) \subseteq Bytes(0, 49152)

(***************************************************************************)
(* C3: round trip across layers: a write of v to mtimecmp[h], h < 4095,    *)
(* through one layer followed directly by a read of mtimecmp[h] through    *)
(* the other layer returns v.                                              *)
(***************************************************************************)
C3_CrossLayerRoundTrip ==
    (/\ prev.op = "write_mtimecmp" /\ prev.outcome = "ok" /\ InRange(prev.hart)
     /\ last.op = "read_mtimecmp" /\ last.hart = prev.hart
     /\ last.layer = OtherLayer(prev.layer))
        => /\ last.outcome = "ok"
           /\ last.result = prev.val

(***************************************************************************)
(* C4: the layout is the fixed address map for N = 4095: MSWI and SSWI are *)
(* 4*(N+1) = 0x4000 bytes with msip at offset 0, the time-compare array is *)
(* 8*N = 0x7ff8 bytes at offset 0x4000, mtime is 8 bytes at 0xbff8, the    *)
(* block is 0xc000 bytes with no padding; the safe accessors touch exactly *)
(* the bytes of these fields.                                              *)
(***************************************************************************)
C4_Layout ==
    /\ SizeOf(MSWI) = 4 * (NumHarts + 1) /\ SizeOf(MSWI) = 16384
    /\ SizeOf(SSWI) = 16384
    /\ OffsetOfMsip = 0
    /\ SizeOf(ArrayOf(MTIMECMP, NumHarts)) = 8 * NumHarts
    /\ SizeOf(ArrayOf(MTIMECMP, NumHarts)) = 32760
    /\ OffsetOfMtimecmp = 16384
    /\ OffsetOfMtime = 49144 /\ SizeOf(MTIME) = 8
    /\ SizeOf(SifiveClint) = 49152
    /\ SizeOf(SifiveClint) = SizeOf(MSWI) + SizeOf(ArrayOf(MTIMECMP, NumHarts)) + SizeOf(MTIME)
    /\ (last.layer = "safe" /\ last.outcome = "ok")
          => /\ Len(last.log) = 1
             /\ last.op \in PendingOps => Touched(last.log[1]) = Bytes(4 * last.hart, 4)
             /\ last.op \in CompareOps => Touched(last.log[1]) = Bytes(16384 + 8 * last.hart, 8)
             /\ last.op \in TimeOps => Touched(last.log[1]) = Bytes(49144, 8)

W_C4 ==
    /\ last.layer = "safe" /\ last.op = "write_mtime" /\ last.outcome = "ok"
    /\ prev.layer = "safe" /\ prev.op = "write_mtimecmp" /\ prev.hart = NumHarts - 1
    /\ prev.outcome = "ok"

(***************************************************************************)
(* C5: for every hart h < 4095 the raw pending accessors do one 4-byte     *)
(* load/store at exactly base + 4*h, the address of mswi.msip[h] that the  *)
(* safe accessors touch.                                                   *)
(***************************************************************************)
C5_RawPendingAddress ==
    (last.op \in PendingOps /\ InRange(last.hart) /\ last.outcome = "ok")
        => /\ Len(last.log) = 1
           /\ last.log[1].width = 4
           /\ last.log[1].kind = (IF last.op \in LoadOps THEN "load" ELSE "store")
           /\ last.log[1].addr = Add64(base, FromNat(4 * last.hart))
           /\ last.log[1].addr = MsipAddr(base, last.hart)

W_C5 ==
    /\ last.layer = "naked" /\ last.op = "set_msip" /\ last.hart = NumHarts - 1
    /\ prev.layer = "naked" /\ prev.op = "read_msip" /\ prev.hart = 1

(***************************************************************************)
(* C6: isolation: set_msip(h1) / clear_msip(h1), h1 < 4095, in either      *)
(* layer leaves what read_msip(h2), h2 # h1, read_mtimecmp(h) for every h  *)
(* and read_mtime observe unchanged; only the 4 bytes of msip[h1] change.  *)
(***************************************************************************)
C6_Isolation ==
    (last.op \in {"set_msip", "clear_msip"} /\ InRange(last.hart) /\ last.outcome = "ok")
        => /\ \A h2 \in Harts :
                (InRange(h2) /\ h2 # last.hart)
                    => ReadMsipSafe(mem, h2) = ReadMsipSafe(last.pre, h2)
           /\ \A h \in Harts :
                InRange(h) => ReadMtimecmpSafe(mem, h) = ReadMtimecmpSafe(last.pre, h)
           /\ ReadMtimeSafe(mem) = ReadMtimeSafe(last.pre)
           /\ LET own == Range(MsipAddr(base, last.hart), 4)
              IN  \A a \in ((DOMAIN mem) \cup (DOMAIN last.pre)) \ own :
                      ByteAt(mem, bg, a) = ByteAt(last.pre, bg, a)

W_C6 ==
    /\ last.op = "set_msip" /\ last.layer = "naked" /\ last.hart = 0
    /\ prev.op = "set_msip" /\ prev.hart = 1 /\ prev.outcome = "ok"

(***************************************************************************)
(* C7: idempotence of the pending flag, h < 4095, either layer for each    *)
(* call: after set; set the flag reads true and the stored word is 1;      *)
(* after clear; clear it reads false; after set; clear it reads false.     *)
(***************************************************************************)
C7_Idempotence ==
    (/\ prev.op \in {"set_msip", "clear_msip"} /\ last.op \in {"set_msip", "clear_msip"}
     /\ InRange(last.hart) /\ prev.hart = last.hart
     /\ prev.outcome = "ok" /\ last.outcome = "ok")
        => LET h == last.hart
               word == LoadBytes(mem, bg, MsipAddr(base, h), 4)
           IN  /\ (prev.op = "set_msip" /\ last.op = "set_msip")
                    => /\ ReadMsipSafe(mem, h) = BoolOf(TRUE)
                       /\ ReadMsipNaked(mem, h) = BoolOf(TRUE)
                       /\ word = <<1, 0, 0, 0>>
               /\ last.op = "clear_msip"
                    => /\ ReadMsipSafe(mem, h) = BoolOf(FALSE)
                       /\ ReadMsipNaked(mem, h) = BoolOf(FALSE)

W_C7 ==
    /\ prev.op = "set_msip" /\ prev.layer = "naked"
    /\ last.op = "set_msip" /\ last.layer = "safe"
    /\ prev.hart = 1 /\ last.hart = 1 /\ last.outcome = "ok"

(***************************************************************************)
(* C8: boundary: for h = N-1 = 4094 every per-hart accessor of both layers *)
(* touches only bytes inside [base, base + 0xc000) and only bytes of that  *)
(* hart's own register; for h = N = 4095 the address an accessor computes  *)
(* lands neither in the reserved slot at 0x3ffc nor in the time counter at *)
(* 0xbff8..0xbfff.                                                         *)
(***************************************************************************)
C8_Boundary ==
    /\ (last.op \in PerHartOps /\ last.hart = NumHarts - 1)
          => /\ last.outcome = "ok"
             /\ \A i \in 1..Len(last.log) :
                  /\ Touched(last.log[i]) \subseteq Bytes(0, 49152)
                  /\ last.op \in PendingOps
                        => Touched(last.log[i]) \subseteq Bytes(4 * last.hart, 4)
                  /\ last.op \in CompareOps
                        => Touched(last.log[i]) \subseteq Bytes(16384 + 8 * last.hart, 8)
    /\ (last.op \in PerHartOps /\ last.hart = NumHarts)
          => \A i \in 1..Len(last.log) :
                /\ Touched(last.log[i]) \cap Bytes(16380, 4) = {}
                /\ Touched(last.log[i]) \cap Bytes(49144, 8) = {}

(***************************************************************************)
(* C9 (as claimed): a safe per-hart accessor called with hart_idx >= 4095  *)
(* does no bounds check and never panics: it performs the access at the    *)
(* computed address, like the raw path.                                    *)
(***************************************************************************)
C9_Unchecked ==
    (last.layer = "safe" /\ last.op \in PerHartOps /\ last.hart >= NumHarts)
        => /\ last.outcome = "ok"
           /\ Len(last.log) = 1

(***************************************************************************)
(* C9 (amended): a safe per-hart accessor called with hart_idx >= 4095 is  *)
(* bounds-checked: it panics and performs no access, leaving memory as it  *)
(* was, and nothing is called after it; only the raw path performs the     *)
(* access at the address it computes from an out-of-range index.           *)
(***************************************************************************)
C9_BoundsChecked ==
    /\ (last.layer = "safe" /\ last.op \in PerHartOps /\ last.hart >= NumHarts)
          => /\ last.outcome = "panic"
             /\ last.log = <<>>
             /\ mem = last.pre
             /\ panicked /\ ~CanCall
    /\ (last.layer = "safe" /\ last.op \in PerHartOps /\ InRange(last.hart))
          => last.outcome = "ok"
    /\ (last.layer = "naked" /\ last.op \in PerHartOps /\ last.hart >= NumHarts)
          => /\ last.outcome = "ok"
             /\ Len(last.log) = 1
             /\ last.op \in PendingOps
                   => last.log[1].addr = Add64(base, FromNat(4 * last.hart))
             /\ last.op \in CompareOps
                   => last.log[1].addr = Add64(base, FromNat(MTIMER_OFFSET + 8 * last.hart))

W_C9 ==
    /\ last.layer = "safe" /\ last.op = "write_mtimecmp" /\ last.hart = NumHarts
    /\ last.outcome = "panic"
    /\ prev.layer = "naked" /\ prev.op = "write_mtimecmp" /\ prev.hart = NumHarts

(***************************************************************************)
(* C10: register and stack discipline of the raw layer: at ret of each     *)
(* _naked accessor sp has its entry value, control goes to the entry ra,   *)
(* every register other than a0 and a1 is unchanged, exactly one load or   *)
(* store of the register's width was issued to the device, and in the two  *)
(* mtime accessors a1 holds its entry value again, so write_mtime_naked    *)
(* stores the caller's val.                                                *)
(***************************************************************************)
C10_RegisterDiscipline ==
    (last.layer = "naked")
        => LET dev == DevLog(last)
           IN  /\ last.exit["sp"] = last.entry["sp"]
               /\ last.pc = last.entry["ra"]
               /\ \A r \in RegNames \ {"a0", "a1"} : last.exit[r] = last.entry[r]
               /\ Len(dev) = 1
               /\ dev[1].kind = (IF last.op \in LoadOps THEN "load" ELSE "store")
               /\ dev[1].width = (IF last.op \in PendingOps THEN 4 ELSE 8)
               /\ last.op \notin TimeOps => Len(last.log) = 1
               /\ last.op \in TimeOps
                     => /\ last.exit["a1"] = last.entry["a1"]
                        /\ \A i \in 1..Len(last.log) :
                              ~IsDeviceAccess(last, last.log[i])
                                  => /\ last.log[i].addr = StackSlotAddr(last)
                                     /\ last.log[i].width = 8
               /\ last.op = "write_mtime"
                     => LoadBytes(mem, bg, dev[1].addr, 8) = last.val
               /\ last.op = "write_mtimecmp"
                     => LoadBytes(mem, bg, dev[1].addr, 8) = last.val

W_C10 ==
    /\ last.layer = "naked" /\ last.op = "write_mtime" /\ last.val = AltBits
    /\ prev.layer = "naked" /\ prev.op = "read_mtime"

====
